---- MODULE Spec2Model ----
(***************************************************************************)
(* hbs-composer (src/src/main.rs): a page server that, on every GET        *)
(* /{page}, registers the templates directory, walks the data directory    *)
(* into a nested key/value context (load_directory_recursive) and renders  *)
(* the template pages/<page> with it.                                      *)
(*                                                                         *)
(* The filesystem is a set of nodes keyed by path.  The walk is modelled   *)
(* at the granularity of its .await points: every filesystem call is one   *)
(* step, so that a concurrent actor can remove a subdirectory between any  *)
(* two of them.  The order in which a directory iterator returns entries   *)
(* is a nondeterministic choice made at every next_entry().                *)
(***************************************************************************)
EXTENDS Naturals, Sequences, FiniteSets, TLC

VARIABLES
    fs,        \* the data tree: a set of nodes, the root has path <<>>
    pc,        \* where the request is inside render_page
    tmpl,      \* whether the template pages/<page> exists and renders
    stack,     \* the frames of load_directory_recursive, root frame first
    data,      \* render_page's `data`: what load_data_files returned
    response,  \* the HTTP status answered, 0 while none
    startFs,   \* history: the tree as it was when the current load started
    prev       \* history: the previous completed load, its tree and result

vars == <<fs, pc, tmpl, stack, data, response, startFs, prev>>

----------------------------------------------------------------------------
\* Bounds of the model.

\* Most filesystem nodes below the data root.
MaxNodes == 2

\* Program constants: the three statuses render_page answers.
StatusOk == 200
StatusNotFound == 404
StatusInternalError == 500

\* Path::extension's None.
None == "none"

\* A result not there yet.
Pending == [pending |-> TRUE]

----------------------------------------------------------------------------
\* File names are sequences of segments, "." being a segment of its own.

Dot == "."
NameA == <<"a">>
NameAJson == <<"a", Dot, "json">>
NameATxt == <<"a", Dot, "txt">>
NameBTxt == <<"b", Dot, "txt">>
NameBJson == <<"b", Dot, "json">>
NameCCsv == <<"c", Dot, "csv">>
NameDotJson == <<Dot, "json">>

Names == {NameA, NameAJson, NameATxt, NameBTxt, NameBJson, NameCCsv, NameDotJson}

\* File contents: a JSON object, a JSON string, and text that is not JSON.
Contents == {"{}", "\"v\"", "v\n"}

\* Index of the last "." of a name, 0 when it has none.
LastDot(n) ==
    LET dots == {i \in 1..Len(n) : n[i] = Dot}
    IN IF dots = {} THEN 0 ELSE CHOOSE i \in dots : \A j \in dots : j <= i

\* Path::extension: the part after the last dot, None when the name has no
\* dot or only a leading one.
Extension(n) ==
    IF LastDot(n) <= 1 THEN None ELSE SubSeq(n, LastDot(n) + 1, Len(n))

\* FileStem with the extension left on.
FileStem_WholeName(n) == n

\* Path::file_stem: the part before the last dot, the whole name when the
\* name has no dot or only a leading one.
FileStem(n) ==
    IF LastDot(n) <= 1 THEN n ELSE SubSeq(n, 1, LastDot(n) - 1)

----------------------------------------------------------------------------
\* serde_json values and maps.

EmptyMap == <<>>

ObjectValue(m) == [t |-> "Object", obj |-> m]
StringValue(s) == [t |-> "String", str |-> s]

Ok(m) == [ok |-> TRUE, doc |-> m]
Err(op, at) == [ok |-> FALSE, op |-> op, at |-> at]

\* MapInsert keeping the value a key already has.
MapInsert_KeepFirst(m, k, v) ==
    [x \in (DOMAIN m) \cup {k} |-> IF x \in DOMAIN m THEN m[x] ELSE v]

\* Map::insert: the new value replaces an old one under the same key.
MapInsert(m, k, v) ==
    [x \in (DOMAIN m) \cup {k} |-> IF x = k THEN v ELSE m[x]]

\* ParseJson taking text that is no JSON as a JSON string.
ParseJson_Lenient(c) ==
    CASE c = "{}" -> [ok |-> TRUE, value |-> ObjectValue(EmptyMap)]
      [] c = "\"v\"" -> [ok |-> TRUE, value |-> StringValue("v")]
      [] OTHER -> [ok |-> TRUE, value |-> StringValue(c)]

\* serde_json::from_str on the contents the model knows.
ParseJson(c) ==
    CASE c = "{}" -> [ok |-> TRUE, value |-> ObjectValue(EmptyMap)]
      [] c = "\"v\"" -> [ok |-> TRUE, value |-> StringValue("v")]
      [] OTHER -> [ok |-> FALSE]

----------------------------------------------------------------------------
\* The filesystem.

Paths(f) == {n.path : n \in f}
Exists(f, p) == p \in Paths(f)
Node(f, p) == CHOOSE n \in f : n.path = p

IsPrefix(p, q) == Len(p) <= Len(q) /\ SubSeq(q, 1, Len(p)) = p

\* The names of the entries of directory p.
ChildNames(f, p) ==
    {n.path[Len(n.path)] : n \in {m \in f : Len(m.path) = Len(p) + 1 /\ IsPrefix(p, m.path)}}

MkNode(p, kind, statOk, listOk, iterOk, readOk, content) ==
    [path |-> p, kind |-> kind, statOk |-> statOk, listOk |-> listOk,
     iterOk |-> iterOk, readOk |-> readOk, content |-> content]

\* A directory: healthy, one read_dir fails on, or one whose iterator fails.
DirNodes(p) ==
    {MkNode(p, "dir", TRUE, TRUE, TRUE, TRUE, ""),
     MkNode(p, "dir", TRUE, FALSE, TRUE, TRUE, ""),
     MkNode(p, "dir", TRUE, TRUE, FALSE, TRUE, "")}

\* A file with a loaded extension: readable with some content, or unreadable.
\* A .txt file is never parsed, so one content is enough for it.
FileNodes(p, ext) ==
    {MkNode(p, "file", TRUE, TRUE, TRUE, TRUE, c) :
        c \in IF ext = <<"json">> THEN Contents ELSE {"v\n"}}
        \cup {MkNode(p, "file", TRUE, TRUE, TRUE, FALSE, "")}

\* An entry whose extension is not loaded: a regular file, or one whose
\* metadata cannot be fetched (its name plays no part, so one name carries
\* that case).
IgnoredNodes(p, n) ==
    {MkNode(p, "file", TRUE, TRUE, TRUE, TRUE, "v\n")}
        \cup (IF n = NameCCsv
              THEN {MkNode(p, "file", FALSE, TRUE, TRUE, TRUE, "")}
              ELSE {})

\* What an entry named n of directory p can be.  A directory is named a or
\* b.txt; b.txt may also be neither file nor directory (a socket, a link).
EntryNodes(p, n) ==
    LET q == Append(p, n)
    IN (IF n = NameA THEN DirNodes(q) ELSE {})
        \cup (IF n = NameBTxt
              THEN {MkNode(q, "dir", TRUE, TRUE, TRUE, TRUE, ""),
                    MkNode(q, "other", TRUE, TRUE, TRUE, TRUE, "")}
              ELSE {})
        \cup (IF Extension(n) \in {<<"json">>, <<"txt">>}
              THEN FileNodes(q, Extension(n))
              ELSE IgnoredNodes(q, n))

RootPath == <<>>

----------------------------------------------------------------------------
Init ==
    /\ fs \in {{}} \cup {{r} : r \in DirNodes(RootPath)}
    /\ pc = "setup"
    /\ tmpl = FALSE
    /\ stack = <<>>
    /\ data = Pending
    /\ response = 0
    /\ startFs = {}
    /\ prev = Pending

\* Before the server is asked anything, somebody fills the data directory.
AddNode ==
    /\ pc = "setup"
    /\ Cardinality(fs) <= MaxNodes
    /\ \E d \in {m \in fs : m.kind = "dir" /\ m.listOk} :
         \E n \in Names \ ChildNames(fs, d.path) :
           \E e \in EntryNodes(d.path, n) :
             fs' = fs \cup {e}
    /\ UNCHANGED <<pc, tmpl, stack, data, response, startFs, prev>>

\* GET /{page} arrives (render_page is entered).  The templates directory
\* is whatever it is at that moment.
StartRequest ==
    /\ pc \in {"setup", "done"}
    /\ pc' = "register"
    /\ tmpl' \in BOOLEAN
    /\ response' = 0
    /\ data' = Pending
    /\ prev' = IF data = Pending THEN prev ELSE [fs |-> startFs, res |-> data]
    /\ startFs' = fs
    /\ UNCHANGED <<fs, stack>>

\* handlebars.register_templates_directory: fails or succeeds.
RegisterTemplates ==
    /\ pc = "register"
    /\ \/ /\ pc' = "done"
          /\ response' = StatusInternalError
       \/ /\ pc' = "load_data"
          /\ UNCHANGED response
    /\ UNCHANGED <<fs, tmpl, stack, data, startFs, prev>>

Frame(p) == [path |-> p, at |-> "exists", remaining |-> {}, cur |-> <<>>,
             data |-> EmptyMap, res |-> Pending]

\* The HashMap load_data_files copies the map into, and the Map render_page
\* copies that into: every pair once, under its key.
IntoMap(m) == [k \in DOMAIN m |-> m[k]]

\* LoadDataFiles taking a missing data root for an error.
LoadDataFiles_MissingIsError ==
    /\ pc = "load_data"
    /\ IF ~Exists(fs, RootPath)
       THEN /\ data' = Err("read_dir", RootPath)
            /\ pc' = "done"
            /\ response' = StatusInternalError
            /\ UNCHANGED stack
       ELSE /\ stack' = <<Frame(RootPath)>>
            /\ pc' = "walking"
            /\ UNCHANGED <<data, response>>
    /\ UNCHANGED <<fs, tmpl, startFs, prev>>

\* load_data_files up to its call of load_directory_recursive.
LoadDataFiles ==
    /\ pc = "load_data"
    /\ IF ~Exists(fs, RootPath)
       THEN /\ data' = Ok(IntoMap(EmptyMap))
            /\ pc' = "render"
            /\ UNCHANGED stack
       ELSE /\ stack' = <<Frame(RootPath)>>
            /\ pc' = "walking"
            /\ UNCHANGED data
    /\ UNCHANGED <<fs, tmpl, response, startFs, prev>>

Top == stack[Len(stack)]

\* The stack with its top frame replaced.
SetTop(f) == [stack EXCEPT ![Len(stack)] = f]

\* The top frame returns r: it waits for its caller to take the result.
Returning(r) == SetTop([Top EXCEPT !.at = "ret", !.res = r])

\* ExistsCheck without the check.
ExistsCheck_Skipped ==
    /\ pc = "walking"
    /\ Top.at = "exists"
    /\ stack' = SetTop([Top EXCEPT !.at = "read_dir"])
    /\ UNCHANGED <<fs, pc, tmpl, data, response, startFs, prev>>

\* if !dir_path.exists() { return Ok(data) }
ExistsCheck ==
    /\ pc = "walking"
    /\ Top.at = "exists"
    /\ stack' = IF Exists(fs, Top.path)
                THEN SetTop([Top EXCEPT !.at = "read_dir"])
                ELSE Returning(Ok(Top.data))
    /\ UNCHANGED <<fs, pc, tmpl, data, response, startFs, prev>>

\* Whether the iterator of directory p is one that fails.
IterFails(p) == Exists(fs, p) /\ ~Node(fs, p).iterOk

\* ReadDir taking a directory that cannot be listed for an empty one.
ReadDir_SwallowError ==
    /\ pc = "walking"
    /\ Top.at = "read_dir"
    /\ stack' = IF /\ Exists(fs, Top.path)
                   /\ Node(fs, Top.path).kind = "dir"
                   /\ Node(fs, Top.path).listOk
                THEN SetTop([Top EXCEPT !.at = "next",
                                        !.remaining = ChildNames(fs, Top.path)])
                ELSE Returning(Ok(Top.data))
    /\ UNCHANGED <<fs, pc, tmpl, data, response, startFs, prev>>

\* fs::read_dir(dir_path).await?
ReadDir ==
    /\ pc = "walking"
    /\ Top.at = "read_dir"
    /\ stack' = IF /\ Exists(fs, Top.path)
                   /\ Node(fs, Top.path).kind = "dir"
                   /\ Node(fs, Top.path).listOk
                THEN SetTop([Top EXCEPT !.at = "next",
                                        !.remaining = ChildNames(fs, Top.path)])
                ELSE Returning(Err("read_dir", Top.path))
    /\ UNCHANGED <<fs, pc, tmpl, data, response, startFs, prev>>

\* NextEntry ending the loop on an iterator error (while let Ok(Some(..))).
NextEntry_ErrorEndsLoop ==
    /\ pc = "walking"
    /\ Top.at = "next"
    /\ \/ /\ IterFails(Top.path)
          /\ stack' = Returning(Ok(Top.data))
       \/ /\ ~IterFails(Top.path)
          /\ Top.remaining = {}
          /\ stack' = Returning(Ok(Top.data))
       \/ \E n \in Top.remaining :
            stack' = SetTop([Top EXCEPT !.at = "metadata", !.cur = n,
                                        !.remaining = Top.remaining \ {n}])
       \/ \E n \in Top.remaining :
            /\ ~Exists(fs, Append(Top.path, n))
            /\ stack' = SetTop([Top EXCEPT !.remaining = Top.remaining \ {n}])
    /\ UNCHANGED <<fs, pc, tmpl, data, response, startFs, prev>>

\* entries.next_entry().await?: an error, the end, or any entry not yet
\* returned.  An entry that has been removed since read_dir may still be
\* returned or may be left out.
NextEntry ==
    /\ pc = "walking"
    /\ Top.at = "next"
    /\ \/ /\ IterFails(Top.path)
          /\ stack' = Returning(Err("next_entry", Top.path))
       \/ /\ ~IterFails(Top.path)
          /\ Top.remaining = {}
          /\ stack' = Returning(Ok(Top.data))
       \/ \E n \in Top.remaining :
            stack' = SetTop([Top EXCEPT !.at = "metadata", !.cur = n,
                                        !.remaining = Top.remaining \ {n}])
       \/ \E n \in Top.remaining :
            /\ ~Exists(fs, Append(Top.path, n))
            /\ stack' = SetTop([Top EXCEPT !.remaining = Top.remaining \ {n}])
    /\ UNCHANGED <<fs, pc, tmpl, data, response, startFs, prev>>

\* The extensions the walk loads.
Loaded(n) == Extension(n) \in {<<"json">>, <<"txt">>}

\* entry.metadata().await?, then the dispatch on the entry's kind: a
\* directory is entered, a file goes on to be read when its extension is
\* json or txt, anything else is passed over.
Metadata ==
    /\ pc = "walking"
    /\ Top.at = "metadata"
    /\ LET e == Append(Top.path, Top.cur)
       IN stack' =
            IF ~Exists(fs, e) \/ ~Node(fs, e).statOk
            THEN Returning(Err("metadata", e))
            ELSE IF Node(fs, e).kind = "dir"
            THEN Append(SetTop([Top EXCEPT !.at = "await"]), Frame(e))
            ELSE IF Node(fs, e).kind = "file" /\ Loaded(Top.cur)
            THEN SetTop([Top EXCEPT !.at = "read"])
            ELSE SetTop([Top EXCEPT !.at = "next"])
    /\ UNCHANGED <<fs, pc, tmpl, data, response, startFs, prev>>

\* fs::read_to_string(&path).await
ReadToString(p) ==
    IF Exists(fs, p) /\ Node(fs, p).kind = "file" /\ Node(fs, p).readOk
    THEN [ok |-> TRUE, content |-> Node(fs, p).content]
    ELSE [ok |-> FALSE]

\* What the file at p, named n, adds to the map m.
LoadFile(m, p, n) ==
    LET key == FileStem(n)
        content == ReadToString(p)
    IN IF ~content.ok THEN m
       ELSE IF Extension(n) = <<"json">>
       THEN IF ParseJson(content.content).ok
            THEN MapInsert(m, key, ParseJson(content.content).value)
            ELSE m
       ELSE MapInsert(m, key, StringValue(content.content))

\* The "json" and "txt" arms: read the file, parse it, insert or pass over.
ReadFile ==
    /\ pc = "walking"
    /\ Top.at = "read"
    /\ stack' = SetTop([Top EXCEPT
            !.at = "next",
            !.data = LoadFile(Top.data, Append(Top.path, Top.cur), Top.cur)])
    /\ UNCHANGED <<fs, pc, tmpl, data, response, startFs, prev>>

\* What the caller's map m becomes when the load of subdirectory n returns r.
TakeSubdir(m, n, r) ==
    IF r.ok THEN MapInsert(m, n, ObjectValue(r.doc)) ELSE m

\* ReturnToParent passing an error on to the caller's caller (a `?`).
ReturnToParent_Propagates ==
    /\ pc = "walking"
    /\ Top.at = "ret"
    /\ Len(stack) > 1
    /\ LET parent == stack[Len(stack) - 1]
       IN stack' = [SubSeq(stack, 1, Len(stack) - 1) EXCEPT ![Len(stack) - 1] =
            IF Top.res.ok
            THEN [parent EXCEPT !.at = "next",
                                !.data = TakeSubdir(parent.data, parent.cur, Top.res)]
            ELSE [parent EXCEPT !.at = "ret", !.res = Top.res]]
    /\ UNCHANGED <<fs, pc, tmpl, data, response, startFs, prev>>

\* A recursive call returns to the match in its caller.
ReturnToParent ==
    /\ pc = "walking"
    /\ Top.at = "ret"
    /\ Len(stack) > 1
    /\ LET parent == stack[Len(stack) - 1]
       IN stack' = [SubSeq(stack, 1, Len(stack) - 1) EXCEPT ![Len(stack) - 1] =
            [parent EXCEPT !.at = "next",
                           !.data = TakeSubdir(parent.data, parent.cur, Top.res)]]
    /\ UNCHANGED <<fs, pc, tmpl, data, response, startFs, prev>>

\* The root call returns to load_data_files, and that to render_page.
ReturnToRequest ==
    /\ pc = "walking"
    /\ Top.at = "ret"
    /\ Len(stack) = 1
    /\ stack' = <<>>
    /\ data' = IF Top.res.ok THEN Ok(IntoMap(Top.res.doc)) ELSE Top.res
    /\ IF Top.res.ok
       THEN pc' = "render" /\ UNCHANGED response
       ELSE pc' = "done" /\ response' = StatusInternalError
    /\ UNCHANGED <<fs, tmpl, startFs, prev>>

\* Render answering 500 when the template cannot be rendered.
Render_MissingIs500 ==
    /\ pc = "render"
    /\ pc' = "done"
    /\ \/ tmpl /\ response' = StatusOk
       \/ response' = StatusInternalError
    /\ UNCHANGED <<fs, tmpl, stack, data, startFs, prev>>

\* handlebars.render(&template_name, &context)
Render ==
    /\ pc = "render"
    /\ pc' = "done"
    /\ \/ tmpl /\ response' = StatusOk
       \/ response' = StatusNotFound
    /\ UNCHANGED <<fs, tmpl, stack, data, startFs, prev>>

\* Another actor removes a subdirectory, with all it holds, during the walk.
RemoveSubdir ==
    /\ pc = "walking"
    /\ \E d \in {m \in fs : m.kind = "dir" /\ m.path # RootPath} :
         fs' = {m \in fs : ~IsPrefix(d.path, m.path)}
    /\ UNCHANGED <<pc, tmpl, stack, data, response, startFs, prev>>

Next ==
    \/ AddNode
    \/ StartRequest
    \/ RegisterTemplates
    \/ LoadDataFiles
    \/ ExistsCheck
    \/ ReadDir
    \/ NextEntry
    \/ Metadata
    \/ ReadFile
    \/ ReturnToParent
    \/ ReturnToRequest
    \/ Render
    \/ RemoveSubdir

Spec == Init /\ [][Next]_vars

----------------------------------------------------------------------------
\* What the properties below are stated with: the tree read by its own
\* tables, not by the walk's operators.

\* The key a file name stands for, for the names whose extension is loaded.
RefKey(n) ==
    CASE n = NameAJson -> <<"a">>
      [] n = NameATxt -> <<"a">>
      [] n = NameBTxt -> <<"b">>
      [] n = NameBJson -> <<"b">>

IsJsonName(n) == n \in {NameAJson, NameBJson}
IsTxtName(n) == n \in {NameATxt, NameBTxt}

ValidJson(c) == c \in {"{}", "\"v\""}

\* The value a valid JSON text stands for.
RefJson(c) ==
    IF c = "{}" THEN [t |-> "Object", obj |-> <<>>] ELSE [t |-> "String", str |-> "v"]

Entries(f, p) == {m \in f : Len(m.path) = Len(p) + 1 /\ IsPrefix(p, m.path)}
EntryName(m) == m.path[Len(m.path)]

\* An entry that maps to a key when it loads: a directory, a .json or .txt file.
Keyed(m) ==
    /\ m.statOk
    /\ \/ m.kind = "dir"
       \/ m.kind = "file" /\ (IsJsonName(EntryName(m)) \/ IsTxtName(EntryName(m)))

EntryKey(m) == IF m.kind = "dir" THEN EntryName(m) ELSE RefKey(EntryName(m))

\* A .json or .txt file that reads, and parses when it is .json.
GoodFile(m) ==
    /\ m.kind = "file"
    /\ m.statOk
    /\ m.readOk
    /\ \/ IsTxtName(EntryName(m))
       \/ IsJsonName(EntryName(m)) /\ ValidJson(m.content)

\* A .json file that cannot be read or does not parse.
BadJson(m) ==
    /\ m.kind = "file"
    /\ m.statOk
    /\ IsJsonName(EntryName(m))
    /\ ~m.readOk \/ ~ValidJson(m.content)

\* A directory that lists to its end with the metadata of every entry.
DirWalks(f, m) ==
    /\ m.kind = "dir"
    /\ m.listOk
    /\ m.iterOk
    /\ \A c \in Entries(f, m.path) : c.statOk

\* An entry whose own load succeeds.
Loads(f, m) == GoodFile(m) \/ (m.statOk /\ DirWalks(f, m))

\* Nothing at or below directory p fails.
Healthy(f, p) ==
    \A m \in f : IsPrefix(p, m.path) =>
        /\ m.statOk
        /\ m.kind = "dir" => m.listOk /\ m.iterOk
        /\ (m.kind = "file" /\ Len(m.path) > 0
              /\ (IsJsonName(EntryName(m)) \/ IsTxtName(EntryName(m)))) => GoodFile(m)

\* No two entries of directory p map to one key.
DistinctKeys(f, p) ==
    \A m1, m2 \in Entries(f, p) :
        (Keyed(m1) /\ Keyed(m2) /\ m1 # m2) => EntryKey(m1) # EntryKey(m2)

\* No directory at or below p holds two entries that map to one key.
NoCollision(f, p) ==
    \A d \in f : (d.kind = "dir" /\ IsPrefix(p, d.path)) => DistinctKeys(f, d.path)

\* The reference mapping of directory p.
RECURSIVE Ref(_, _)
Ref(f, p) ==
    LET es == {m \in Entries(f, p) : Keyed(m)}
    IN [k \in {EntryKey(m) : m \in es} |->
          LET m == CHOOSE x \in es : EntryKey(x) = k
          IN IF m.kind = "dir" THEN [t |-> "Object", obj |-> Ref(f, m.path)]
             ELSE IF IsJsonName(EntryName(m)) THEN RefJson(m.content)
             ELSE [t |-> "String", str |-> m.content]]

\* A call of load_directory_recursive has just produced its result.
Returned == pc = "walking" /\ stack # <<>> /\ Top.at = "ret"

\* load_data_files has produced its result.
LoadDone == data # Pending

\* Nobody has touched the tree since the load began.
Unchanged == fs = startFs

\* The frame that called the top one.
Parent == stack[Len(stack) - 1]

\* This step is a step of the walk.
WalkStep == pc = "walking" /\ stack # <<>> /\ stack' # stack

----------------------------------------------------------------------------
\* C4: in a tree where nothing fails and no two entries of a directory map
\* to one key, every call of load_directory_recursive returns exactly the
\* reference mapping of its directory (a subdirectory under its name as an
\* Object, a .json file under its stem as the parsed value, a .txt file
\* under its stem as its raw text, nothing else), and so does the request's
\* load.
C4_ReferenceMapping ==
    /\ (Returned /\ Unchanged /\ Exists(fs, Top.path)
          /\ Healthy(fs, Top.path) /\ NoCollision(fs, Top.path))
         => Top.res = Ok(Ref(fs, Top.path))
    /\ (LoadDone /\ Unchanged /\ Exists(fs, RootPath)
          /\ Healthy(fs, RootPath) /\ NoCollision(fs, RootPath))
         => data = Ok(Ref(fs, RootPath))

\* The load of a root holding subdirectory a with the text file b.txt ended.
C4_Witness ==
    /\ pc = "render"
    /\ Unchanged
    /\ Healthy(fs, RootPath)
    /\ NoCollision(fs, RootPath)
    /\ data = Ok((NameA :> [t |-> "Object",
                            obj |-> (<<"b">> :> [t |-> "String", str |-> "v\n"])]))

\* C1: when the data root does not exist, load_data_files answers
\* Ok(empty map) at once, pushing no frame, and the request goes on to
\* render with no status answered; and a call of load_directory_recursive
\* on a path that does not exist returns Ok(empty map).  A request that
\* found no data root never answers 500 after its load.
C1_MissingRoot ==
    /\ []((~Exists(fs, RootPath) /\ LoadDone)
            => (data = Ok(EmptyMap) /\ stack = <<>> /\ response # StatusInternalError))
    /\ [][/\ (pc = "load_data" /\ ~Exists(fs, RootPath) /\ pc' # pc)
               => /\ data' = Ok(EmptyMap)
                  /\ pc' = "render"
                  /\ stack' = <<>>
                  /\ response' = 0
          /\ (WalkStep /\ Top.at = "exists" /\ ~Exists(fs, Top.path))
               => /\ Len(stack') = Len(stack)
                  /\ stack'[Len(stack)].at = "ret"
                  /\ stack'[Len(stack)].res = Ok(EmptyMap)]_vars

\* A request on a missing data root has been answered by the renderer.
C1_Witness ==
    /\ ~Exists(fs, RootPath)
    /\ pc = "done"
    /\ data = Ok(EmptyMap)
    /\ response = StatusOk

\* The keys of the entries of directory p whose own load succeeds.
LoadedKeys(f, p) == {EntryKey(m) : m \in {x \in Entries(f, p) : Keyed(x) /\ Loads(f, x)}}

\* C2 as claimed: the load of a root that exists never returns an error.
C2_Original ==
    (LoadDone /\ Unchanged /\ Exists(startFs, RootPath)) => data.ok

\* C2 as amended: the load of a root that exists returns an error exactly
\* when listing the root fails, the root's iterator fails or the metadata
\* of one of the root's own entries cannot be fetched; every other failure
\* (a file read, a JSON parse, the load of a subdirectory) leaves the result
\* Ok, with a document that holds the keys of the entries that load and no
\* others.
C2_RootErrors ==
    (LoadDone /\ Unchanged /\ Exists(startFs, RootPath)) =>
        /\ data.ok <=> DirWalks(fs, Node(fs, RootPath))
        /\ data.ok => DOMAIN data.doc = LoadedKeys(fs, RootPath)

\* A root whose load ended Ok with a failing entry left out.
C2_Witness ==
    /\ LoadDone
    /\ Unchanged
    /\ Exists(fs, RootPath)
    /\ data.ok
    /\ \E m \in Entries(fs, RootPath) :
         Keyed(m) /\ ~Loads(fs, m) /\ EntryKey(m) \notin DOMAIN data.doc
    /\ data.doc # EmptyMap

\* C3: in a directory that lists to its end, a failure on one entry
\* (metadata, read, parse, subdirectory) leaves every entry that loads with
\* its key in the document returned for the directory.
C3_SiblingIsolation ==
    (Returned /\ Unchanged /\ Exists(fs, Top.path)
       /\ Node(fs, Top.path).kind = "dir"
       /\ Node(fs, Top.path).listOk /\ Node(fs, Top.path).iterOk)
    => \A m \in Entries(fs, Top.path) :
          (Keyed(m) /\ Loads(fs, m)) =>
              (Top.res.ok /\ EntryKey(m) \in DOMAIN Top.res.doc)

\* The value a good file stands for.
FileValue(m) ==
    IF IsJsonName(EntryName(m)) THEN RefJson(m.content)
    ELSE [t |-> "String", str |-> m.content]

\* Directory p lists to its end and holds nothing but .json files that fail
\* and files that load, at least one of each.
BadJsonAmongGood(f, p) ==
    /\ Exists(f, p)
    /\ Node(f, p).kind = "dir" /\ Node(f, p).listOk /\ Node(f, p).iterOk
    /\ \A m \in Entries(f, p) : BadJson(m) \/ GoodFile(m)
    /\ \E m \in Entries(f, p) : BadJson(m)
    /\ \E m \in Entries(f, p) : GoodFile(m)

\* What C5 says of the document returned for such a directory.
BadOmittedGoodKept(f, p, r) ==
    /\ r.ok
    /\ \A m \in Entries(f, p) :
         /\ BadJson(m) => EntryKey(m) \notin DOMAIN r.doc
         /\ GoodFile(m) => /\ EntryKey(m) \in DOMAIN r.doc
                           /\ r.doc[EntryKey(m)] = FileValue(m)

\* C5 as claimed: a .json file that cannot be read or parsed, among
\* readable .txt and valid .json siblings: the load returns Ok, the bad
\* file's stem is no key, every good sibling is there with its value.
C5_Original ==
    (Returned /\ Unchanged /\ BadJsonAmongGood(fs, Top.path))
        => BadOmittedGoodKept(fs, Top.path, Top.res)

\* C5 as amended: the same, for a directory whose files have distinct stems.
C5_BadJsonOmitted ==
    (Returned /\ Unchanged /\ BadJsonAmongGood(fs, Top.path)
       /\ DistinctKeys(fs, Top.path))
        => BadOmittedGoodKept(fs, Top.path, Top.res)

\* Such a directory has been loaded.
C5_Witness ==
    /\ Returned
    /\ Unchanged
    /\ BadJsonAmongGood(fs, Top.path)
    /\ DistinctKeys(fs, Top.path)
    /\ Top.res.ok
    /\ Top.res.doc # EmptyMap

\* Two loads ended alike: both in an error, or both with the same document.
SameOutcome(r1, r2) == r1.ok = r2.ok /\ (r1.ok => r1.doc = r2.doc)

\* Two loads in a row have ended and the tree was the same all along.
LoadedTwice ==
    /\ LoadDone
    /\ prev # Pending
    /\ prev.fs = startFs
    /\ Unchanged

\* C6 as claimed: two loads of the same unchanged tree end alike, whatever
\* the orders in which the iterators returned the entries, collisions of
\* keys included.
C6_Original == LoadedTwice => SameOutcome(prev.res, data)

\* C6 as amended: two loads of the same unchanged tree end alike, whatever
\* the orders in which the iterators returned the entries, when no two
\* entries of one directory map to the same key.
C6_Idempotent ==
    (LoadedTwice /\ NoCollision(fs, RootPath)) => SameOutcome(prev.res, data)

\* Two loads of a root with two keys have ended.
C6_Witness ==
    /\ LoadedTwice
    /\ NoCollision(fs, RootPath)
    /\ data.ok
    /\ prev.res.ok
    /\ Cardinality(DOMAIN data.doc) = 2

\* C7 as claimed: a request for a page without a template ends in 404.
C7_Original == (pc = "done" /\ ~tmpl) => response = StatusNotFound

\* C7 as amended: a request for a page without a template ends in 404 when
\* the templates directory registered and the data load returned Ok, and in
\* 500 when either failed; it never ends in 200.
C7_UnknownPage ==
    (pc = "done" /\ ~tmpl) =>
        response = IF LoadDone /\ data.ok THEN StatusNotFound
                   ELSE StatusInternalError

\* A page without a template was asked for over a data root that loaded.
C7_Witness ==
    /\ pc = "done"
    /\ ~tmpl
    /\ response = StatusNotFound
    /\ Exists(fs, RootPath)
    /\ data.doc # EmptyMap

Vanished == Len(stack) > 1 /\ ~Exists(fs, Top.path)

\* C9 as claimed: the load of a subdirectory that has been removed returns
\* an empty document, at whatever point of the load the removal came.
C9_Original ==
    [][(WalkStep /\ Vanished /\ Top.at # "ret"
          /\ Len(stack') = Len(stack) /\ stack'[Len(stack)].at = "ret")
        => stack'[Len(stack)].res = Ok(EmptyMap)]_vars

\* C9 as amended: a subdirectory removed before its load checks that it
\* exists loads as an empty document; one removed between that check and
\* the listing returns an error; whatever the load of a removed
\* subdirectory returns, its caller goes on to its next entry, having
\* inserted the document under the subdirectory's name when the load
\* returned one and nothing when it returned an error.
C9_RemovedSubdir ==
    [][/\ (WalkStep /\ Vanished /\ Top.at = "exists")
            => /\ Len(stack') = Len(stack)
               /\ stack'[Len(stack)].at = "ret"
               /\ stack'[Len(stack)].res = Ok(EmptyMap)
       /\ (WalkStep /\ Vanished /\ Top.at = "read_dir")
            => /\ Len(stack') = Len(stack)
               /\ stack'[Len(stack)].at = "ret"
               /\ ~stack'[Len(stack)].res.ok
       /\ (WalkStep /\ Vanished /\ Top.at = "ret")
            => /\ Len(stack') = Len(stack) - 1
               /\ stack'[Len(stack) - 1].at = "next"
               /\ stack'[Len(stack) - 1].data =
                    IF Top.res.ok
                    THEN [k \in (DOMAIN Parent.data) \cup {Parent.cur} |->
                            IF k = Parent.cur
                            THEN [t |-> "Object", obj |-> Top.res.doc]
                            ELSE Parent.data[k]]
                    ELSE Parent.data]_vars

\* A subdirectory that held something was removed before its load began,
\* and its caller holds it as an empty Object.
C9_Witness ==
    /\ pc = "walking"
    /\ stack # <<>>
    /\ Top.at = "next"
    /\ Top.cur = NameA
    /\ ~Exists(fs, Append(Top.path, NameA))
    /\ Entries(startFs, Append(Top.path, NameA)) # {}
    /\ NameA \in DOMAIN Top.data
    /\ Top.data[NameA] = [t |-> "Object", obj |-> EmptyMap]

\* The error r was raised by the call for directory p itself: by its
\* listing, its iterator, or the metadata of one of its own entries.
OwnError(p, r) ==
    \/ r.op \in {"read_dir", "next_entry"} /\ r.at = p
    \/ r.op = "metadata" /\ Len(r.at) = Len(p) + 1 /\ IsPrefix(p, r.at)

\* C10: an error returned by a call of load_directory_recursive was raised
\* by that call itself, never by a call below it, so the root load fails
\* only on the root's listing, its iterator or the metadata of one of its
\* direct entries; and a caller whose recursive call returned an error
\* inserts no key and goes on to its next entry.
C10_NoPropagation ==
    /\ []((Returned /\ ~Top.res.ok) => OwnError(Top.path, Top.res))
    /\ []((LoadDone /\ ~data.ok) => OwnError(RootPath, data))
    /\ [][(WalkStep /\ Top.at = "ret" /\ Len(stack) > 1 /\ ~Top.res.ok)
            => /\ Len(stack') = Len(stack) - 1
               /\ stack'[Len(stack) - 1].at = "next"
               /\ stack'[Len(stack) - 1].data = Parent.data
               /\ stack'[Len(stack) - 1].remaining = Parent.remaining]_vars

\* The root load ended Ok over a tree with an entry two levels down whose
\* metadata cannot be fetched.
C10_Witness ==
    /\ pc = "render"
    /\ Unchanged
    /\ data.ok
    /\ \E m \in fs : Len(m.path) = 2 /\ ~m.statOk

====
